---- MODULE Spec2Model ----
(***************************************************************************)
(* Model of tools/panel_wrapper.c: a privileged dispatcher that validates  *)
(* a command and one optional argument, checks the target script, builds   *)
(* a replacement environment, logs, and calls execve.                      *)
(*                                                                         *)
(* C strings are sequences of one-character strings (without the           *)
(* terminating NUL).  A pointer is <<>> (NULL) or <<v>> (points to v).     *)
(* A uid_t / int value is represented by the integer that has the same     *)
(* 32-bit pattern read as a signed int, so (uid_t)-1 is -1; the code only  *)
(* compares uids for equality and prints them with %d.                     *)
(***************************************************************************)
EXTENDS Integers, Sequences, FiniteSets, TLC

\* ---------------------------------------------------------------- strings
NUL == ""
NL == "\n"
NULL == <<>>
Ptr(v) == <<v>>
Deref(p) == p[1]

LOGFILE == <<"/", "v", "a", "r", "/", "l", "o", "g", "/", "p", "a", "n", "e", "l", "/", "p", "a", "n", "e", "l", "-", "w", "r", "a", "p", "p", "e", "r", ".", "l", "o", "g">>
AUTODEPLOY == <<"/", "o", "p", "t", "/", "p", "a", "n", "e", "l", "/", "s", "c", "r", "i", "p", "t", "s", "/", "a", "u", "t", "o", "d", "e", "p", "l", "o", "y", ".", "s", "h">>
MEMWATCH == <<"/", "o", "p", "t", "/", "p", "a", "n", "e", "l", "/", "s", "c", "r", "i", "p", "t", "s", "/", "m", "e", "m", "w", "a", "t", "c", "h", ".", "s", "h">>

StrAutodeploy == <<"a", "u", "t", "o", "d", "e", "p", "l", "o", "y">>
StrMemwatch == <<"m", "e", "m", "w", "a", "t", "c", "h">>
StrHttp == <<"h", "t", "t", "p", ":", "/", "/">>
StrHttps == <<"h", "t", "t", "p", "s", ":", "/", "/">>
StrVarRun == <<"/", "v", "a", "r", "/", "r", "u", "n", "/">>
StrVarTmp == <<"/", "v", "a", "r", "/", "t", "m", "p", "/">>
StrTmp == <<"/", "t", "m", "p", "/">>
StrDownloadUrl == <<"D", "O", "W", "N", "L", "O", "A", "D", "_", "U", "R", "L", "=">>
StrEtPidFile == <<"E", "T", "_", "P", "I", "D", "_", "F", "I", "L", "E", "=">>
StrPath == <<"P", "A", "T", "H", "=", "/", "u", "s", "r", "/", "b", "i", "n", ":", "/", "b", "i", "n">>
StrLang == <<"L", "A", "N", "G", "=", "C">>
StrNone == <<"(", "n", "o", "n", "e", ")">>

\* length limits of the two grammars
UrlMax == 2048
PathMax == 4096

\* (uid_t)-1, the value panel_uid takes when getpwnam finds no account
UidNone == -1

strlen(s) == Len(s)

\* the i-th byte of a C string, NUL at and after its end
CharAt(s, i) == IF i <= Len(s) THEN s[i] ELSE NUL

\* faulty variant of strcmp0: compares only the first strlen(b) bytes
strcmp0_prefix(a, b) == Len(a) >= Len(b) /\ SubSeq(a, 1, Len(b)) = b

\* strcmp(a, b) == 0
strcmp0(a, b) == a = b

\* strncmp(a, b, n) == 0: the first n bytes agree, comparison stopping at NUL
strncmp0(a, b, n) ==
    \A i \in 1..n :
        (\A j \in 1..(i-1) : CharAt(a, j) # NUL) => CharAt(a, i) = CharAt(b, i)

\* printf %d
Digit(d) == <<"0", "1", "2", "3", "4", "5", "6", "7", "8", "9">>[d + 1]

RECURSIVE DecNat(_)
DecNat(n) == IF n < 10 THEN <<Digit(n)>> ELSE DecNat(n \div 10) \o <<Digit(n % 10)>>

FmtD(n) == IF n < 0 THEN <<"-">> \o DecNat(0 - n) ELSE DecNat(n)

\* ------------------------------------------------------- pure functions
\* faulty variant of is_valid_url: the length test is missing
is_valid_url_nolen(u) ==
    IF u = NULL THEN FALSE
    ELSE IF strncmp0(Deref(u), StrHttp, 7) THEN TRUE
    ELSE IF strncmp0(Deref(u), StrHttps, 8) THEN TRUE
    ELSE FALSE

\* is_valid_url(u), u a pointer
is_valid_url(u) ==
    IF u = NULL THEN FALSE
    ELSE IF strlen(Deref(u)) > UrlMax THEN FALSE
    ELSE IF strncmp0(Deref(u), StrHttp, 7) THEN TRUE
    ELSE IF strncmp0(Deref(u), StrHttps, 8) THEN TRUE
    ELSE FALSE

\* faulty variant of is_safe_path: the length test is missing
is_safe_path_nolen(p) ==
    IF p = NULL THEN FALSE
    ELSE IF CharAt(Deref(p), 1) # "/" THEN FALSE
    ELSE IF strncmp0(Deref(p), StrVarRun, 9) THEN TRUE
    ELSE IF strncmp0(Deref(p), StrVarTmp, 9) THEN TRUE
    ELSE IF strncmp0(Deref(p), StrTmp, 5) THEN TRUE
    ELSE FALSE

\* faulty variant of is_safe_path: the length limit is off by one
is_safe_path_offbyone(p) ==
    IF p = NULL THEN FALSE
    ELSE IF strlen(Deref(p)) >= PathMax THEN FALSE
    ELSE IF CharAt(Deref(p), 1) # "/" THEN FALSE
    ELSE IF strncmp0(Deref(p), StrVarRun, 9) THEN TRUE
    ELSE IF strncmp0(Deref(p), StrVarTmp, 9) THEN TRUE
    ELSE IF strncmp0(Deref(p), StrTmp, 5) THEN TRUE
    ELSE FALSE

\* is_safe_path(p), p a pointer
is_safe_path(p) ==
    IF p = NULL THEN FALSE
    ELSE IF strlen(Deref(p)) > PathMax THEN FALSE
    ELSE IF CharAt(Deref(p), 1) # "/" THEN FALSE
    ELSE IF strncmp0(Deref(p), StrVarRun, 9) THEN TRUE
    ELSE IF strncmp0(Deref(p), StrVarTmp, 9) THEN TRUE
    ELSE IF strncmp0(Deref(p), StrTmp, 5) THEN TRUE
    ELSE FALSE

\* ------------------------------------------------------------ the state
VARIABLES
    argv,       \* argument vector of the invocation, argv[1] the program name
    environ,    \* the caller's inherited environment
    uid, euid, gid,   \* getuid(), geteuid(), getgid()
    fs,         \* script path -> [exists, xok, st_uid]
    passwd,     \* getpwnam("panel"): NULL or pointer to [pw_uid]
    pc,         \* position of main
    script,     \* const char *script
    envp,       \* char **envp
    errno,
    exitcode,   \* pointer to the exit status, NULL while running
    log,        \* content of LOGFILE
    attempts,   \* history: the calls of logmsg, in order
    done,       \* history: checks and system calls performed, in order
    execs,      \* history: the execve calls, in order
    seen,       \* history: the state of the script found by access and by stat
    first,      \* NULL, or pointer to the record of the invocation run before
    writers,    \* concurrent logmsg calls: the bytes each has still to write
    written     \* history: who appended how many bytes to the log, in order

vars == <<argv, environ, uid, euid, gid, fs, passwd, pc, script, envp, errno,
          exitcode, log, attempts, done, execs, seen, first, writers, written>>

\* what main never touches
aux == <<first, writers, written>>

inputs == <<argv, environ, uid, euid, gid, fs, passwd>>

\* ------------------------------------------------------------------ bounds
\* time() returns a value in 0..MaxClock
MaxClock == 0
\* arguments up to this many bytes longer than a grammar's limit are tried
MaxOver == 1

\* errno values
ENOENT == 2
ENOEXEC == 8
ENOMEM == 12
EACCES == 13

argc == Len(argv)
\* const char *cmd = argv[1]  (C indices start at 0, these at 1)
cmd == argv[2]
\* const char *arg = (argc >= 3 ? argv[2] : NULL)
arg == IF argc >= 3 THEN Ptr(argv[3]) ELSE NULL

\* ------------------------------------------------------------------ logmsg
\* strftime(.., "%Y-%m-%dT%H:%M:%S%z", localtime(t)) for the instants 0..9 UTC
Strftime(t) ==
    <<"1", "9", "7", "0", "-", "0", "1", "-", "0", "1", "T", "0", "0", ":", "0", "0", ":", "0">>
    \o <<Digit(t)>> \o <<"+", "0", "0", "0", "0">>

\* outcomes of one logmsg call: fopen fails, or succeeds and time() returns t
LogOutcomes ==
    {[opened |-> FALSE, t |-> 0]} \cup {[opened |-> TRUE, t |-> t] : t \in 0..MaxClock}

\* the line logmsg writes for message m at time t
LogLine(t, m) == Strftime(t) \o <<":", " ">> \o m \o <<NL>>

\* faulty variant of logmsg: the log is opened with mode "w"
logmsg_truncate(m, o) ==
    /\ log' = IF o.opened THEN LogLine(o.t, m) ELSE log
    /\ attempts' = Append(attempts, [msg |-> m, opened |-> o.opened])

\* logmsg(fmt, ...) with the formatted message m; o is the outcome
logmsg(m, o) ==
    /\ log' = IF o.opened THEN log \o LogLine(o.t, m) ELSE log
    /\ attempts' = Append(attempts, [msg |-> m, opened |-> o.opened])

\* errno after a logmsg call entered with errno e
ErrnoAfterLog(e, o) == IF o.opened THEN e ELSE EACCES

\* the formatted messages
MsgInvoked ==
    <<"i", "n", "v", "o", "k", "e", "d", " ", "b", "y", " ", "u", "i", "d", "=">> \o FmtD(uid)
    \o <<" ", "e", "u", "i", "d", "=">> \o FmtD(euid)
    \o <<" ", "g", "i", "d", "=">> \o FmtD(gid)
    \o <<" ", "c", "m", "d", "=">> \o cmd
    \o <<" ", "a", "r", "g", "=">> \o (IF arg # NULL THEN Deref(arg) ELSE StrNone)

MsgInvalidUrl(a) ==
    <<"i", "n", "v", "a", "l", "i", "d", " ", "d", "o", "w", "n", "l", "o", "a", "d", " ", "U", "R", "L", ":", " ">> \o a

MsgInvalidPath(a) ==
    <<"i", "n", "v", "a", "l", "i", "d", " ", "p", "i", "d", " ", "f", "i", "l", "e", " ", "p", "a", "t", "h", ":", " ">> \o a

MsgUnknown(c) ==
    <<"u", "n", "k", "n", "o", "w", "n", " ", "c", "o", "m", "m", "a", "n", "d", ":", " ">> \o c

MsgNotExecutable(s, e) ==
    <<"s", "c", "r", "i", "p", "t", " ", "n", "o", "t", " ", "e", "x", "e", "c", "u", "t", "a", "b", "l", "e", ":", " ">> \o s
    \o <<" ", "(", "e", "r", "r", "n", "o", "=">> \o FmtD(e) \o <<")">>

MsgNotOwned(s) ==
    <<"s", "c", "r", "i", "p", "t", " ", "n", "o", "t", " ", "o", "w", "n", "e", "d", " ", "b", "y", " ", "p", "a", "n", "e", "l", " ", "o", "r", " ", "r", "o", "o", "t", ":", " ">> \o s

MsgExecuting(s) ==
    <<"e", "x", "e", "c", "u", "t", "i", "n", "g", " ">> \o s

MsgExecveFailed(e) ==
    <<"e", "x", "e", "c", "v", "e", " ", "f", "a", "i", "l", "e", "d", ":", " ">> \o FmtD(e)

\* ------------------------------------------------- file system, accounts
\* faulty variant of access_ok: access(path, F_OK), existence only
access_ok_exists(path) == fs[path].exists

\* access(path, X_OK) == 0
access_ok(path) == fs[path].exists /\ fs[path].xok

\* errno left by a failing access(path, X_OK)
access_errno(path) == IF fs[path].exists THEN EACCES ELSE ENOENT

\* errno after stat(path, &st), entered with errno e
stat_errno(path, e) == IF fs[path].exists THEN e ELSE ENOENT

\* file_owned_by_allowed(path)
file_owned_by_allowed(path) ==
    IF ~fs[path].exists THEN FALSE
    ELSE LET st_uid == fs[path].st_uid
             pw == passwd
             panel_uid == IF pw # NULL THEN Deref(pw).pw_uid ELSE UidNone
         IN  IF st_uid = 0 \/ st_uid = panel_uid THEN TRUE ELSE FALSE

\* ------------------------------------------------------------------ inputs
\* pre padded with 'a' to n bytes
Pad(pre, n) == [i \in 1..n |-> IF i <= Len(pre) THEN pre[i] ELSE "a"]

ProgName == <<"p", "a", "n", "e", "l", "_", "w", "r", "a", "p", "p", "e", "r">>

KnownCmds == {StrAutodeploy, StrMemwatch}

UnknownCmds ==
    { <<>>,
      <<"A", "u", "t", "o", "d", "e", "p", "l", "o", "y">>,
      <<"a", "u", "t", "o", "d", "e", "p", "l", "o", "y", " ">>,
      <<"m", "e", "m", "w", "a", "t", "c">>,
      <<"m", "e", "m", "w", "a", "t", "c", "h", ".", "s", "h">> }

ShortArgs ==
    { <<>>,
      <<"h", "t", "t", "p", ":", "/", "/", "x">>,
      <<"h", "t", "t", "p", "s", ":", "/", "/", "x">>,
      <<"H", "T", "T", "P", ":", "/", "/", "x">>,
      <<"f", "t", "p", ":", "/", "/", "x">>,
      <<"h", "t", "t", "p", ":", "/", "x">>,
      <<"h", "t", "t", "p", "s", ":", "/">>,
      <<"/", "t", "m", "p", "/", "p">>,
      <<"/", "v", "a", "r", "/", "r", "u", "n", "/", "p">>,
      <<"/", "v", "a", "r", "/", "t", "m", "p", "/", "p">>,
      <<"/", "e", "t", "c", "/", "p", "a", "s", "s", "w", "d">>,
      <<"/", "t", "m", "p">>,
      <<"/", "v", "a", "r", "/", "r", "u", "n">>,
      <<"t", "m", "p", "/", "p">>,
      <<"/", "t", "m", "p", "/", ".", ".", "/", "e", "t", "c", "/", "p", "a", "s", "s", "w", "d">>,
      <<"/", "t", "m", "p", "/", "a", NL, "b">>,
      AUTODEPLOY,
      MEMWATCH }

LongArgs ==
    {Pad(StrHttp, UrlMax + k) : k \in 0..MaxOver} \cup
    {Pad(StrTmp, PathMax + k) : k \in 0..MaxOver}

Args == ShortArgs \cup LongArgs

Argvs ==
    {<<ProgName>>}
    \cup {<<ProgName, c>> : c \in KnownCmds \cup UnknownCmds}
    \cup {<<ProgName, c, a>> : c \in KnownCmds, a \in Args}
    \cup {<<ProgName, c, a>> : c \in UnknownCmds, a \in {StrHttp \o <<"x">>, StrTmp \o <<"p">>}}
    \cup {<<ProgName, c, StrTmp \o <<"p">>, <<"-", "x">>>> : c \in KnownCmds}

Environs ==
    { << <<"L", "D", "_", "P", "R", "E", "L", "O", "A", "D", "=", "/", "t", "m", "p", "/", "x", ".", "s", "o">>,
         <<"P", "A", "T", "H", "=", "/", "t", "m", "p", "/", "e", "v", "i", "l">>,
         <<"D", "O", "W", "N", "L", "O", "A", "D", "_", "U", "R", "L", "=", "f", "i", "l", "e", ":", "/", "/", "/", "x">> >> }

\* (uid, euid, gid) of the caller
Callers == { <<1000, 0, 1000>>, <<0, 0, 0>> }

Scripts == {AUTODEPLOY, MEMWATCH}

PanelUid == 1001
OwnerUids == {0, 1000, PanelUid, UidNone}

FileStates ==
    {[exists |-> FALSE, xok |-> FALSE, st_uid |-> 0],
     [exists |-> TRUE, xok |-> FALSE, st_uid |-> 0],
     [exists |-> TRUE, xok |-> FALSE, st_uid |-> 1000]}
    \cup {[exists |-> TRUE, xok |-> TRUE, st_uid |-> u] : u \in OwnerUids}

\* the states of the two scripts: at least one of them is absent or is an
\* executable owned by root
FsStates ==
    {f \in [Scripts -> FileStates] :
        \E p \in Scripts : f[p] \in {[exists |-> FALSE, xok |-> FALSE, st_uid |-> 0],
                                     [exists |-> TRUE, xok |-> TRUE, st_uid |-> 0]}}

Passwds == {NULL, Ptr([pw_uid |-> PanelUid])}

ExecErrnos == {ENOEXEC, EACCES}

Init ==
    /\ argv \in Argvs
    /\ environ \in Environs
    /\ \E c \in Callers : uid = c[1] /\ euid = c[2] /\ gid = c[3]
    /\ fs \in FsStates
    /\ passwd \in Passwds
    /\ pc = "Start"
    /\ script = NULL
    /\ envp = NULL
    /\ errno = 0
    /\ exitcode = NULL
    /\ log = <<>>
    /\ attempts = <<>>
    /\ done = <<>>
    /\ execs = <<>>
    /\ seen = <<>>
    /\ first = NULL
    /\ writers = <<>>
    /\ written = <<>>

\* return code;
Return(code) ==
    /\ pc' = "Exited"
    /\ exitcode' = Ptr(code)

\* ------------------------------------------------------------------- main
\* lines 62-74: the argc check, the identity calls and the first log line
Start ==
    /\ pc = "Start"
    /\ IF argc < 2
       THEN /\ Return(2)
            /\ UNCHANGED <<log, attempts, errno>>
       ELSE /\ \E o \in LogOutcomes :
                 /\ logmsg(MsgInvoked, o)
                 /\ errno' = ErrnoAfterLog(errno, o)
            /\ pc' = "ParseCommand"
            /\ UNCHANGED exitcode
    /\ UNCHANGED <<inputs, aux, seen, script, envp, done, execs>>

\* lines 79-80, 86-87, 93-97: the command selects the script, or is unknown
ParseCommand ==
    /\ pc = "ParseCommand"
    /\ IF strcmp0(cmd, StrAutodeploy)
       THEN /\ script' = Ptr(AUTODEPLOY)
            /\ done' = Append(done, [op |-> "parse", ok |-> TRUE])
            /\ pc' = "ValidateArgument"
            /\ UNCHANGED <<exitcode, log, attempts, errno>>
       ELSE IF strcmp0(cmd, StrMemwatch)
       THEN /\ script' = Ptr(MEMWATCH)
            /\ done' = Append(done, [op |-> "parse", ok |-> TRUE])
            /\ pc' = "ValidateArgument"
            /\ UNCHANGED <<exitcode, log, attempts, errno>>
       ELSE /\ \E o \in LogOutcomes :
                 /\ logmsg(MsgUnknown(cmd), o)
                 /\ errno' = ErrnoAfterLog(errno, o)
            /\ done' = Append(done, [op |-> "parse", ok |-> FALSE])
            /\ Return(2)
            /\ UNCHANGED script
    /\ UNCHANGED <<inputs, aux, seen, envp, execs>>

\* faulty variant of ValidateArgument: the rejection is logged but main does
\* not return
ValidateArgument_noreturn ==
    /\ pc = "ValidateArgument"
    /\ IF arg # NULL /\ ~(IF strcmp0(cmd, StrAutodeploy) THEN is_valid_url(arg) ELSE is_safe_path(arg))
       THEN /\ \E o \in LogOutcomes :
                 /\ logmsg(IF strcmp0(cmd, StrAutodeploy) THEN MsgInvalidUrl(Deref(arg))
                           ELSE MsgInvalidPath(Deref(arg)), o)
                 /\ errno' = ErrnoAfterLog(errno, o)
            /\ done' = Append(done, [op |-> "validate", ok |-> FALSE])
       ELSE /\ done' = Append(done, [op |-> "validate", ok |-> TRUE])
            /\ UNCHANGED <<log, attempts, errno>>
    /\ pc' = "CheckScript"
    /\ UNCHANGED <<inputs, aux, seen, script, envp, execs, exitcode>>

\* lines 81-85 and 88-92: the grammar of the selected command
ValidateArgument ==
    /\ pc = "ValidateArgument"
    /\ IF strcmp0(cmd, StrAutodeploy)
       THEN IF arg # NULL /\ ~is_valid_url(arg)
            THEN /\ \E o \in LogOutcomes :
                      /\ logmsg(MsgInvalidUrl(Deref(arg)), o)
                      /\ errno' = ErrnoAfterLog(errno, o)
                 /\ done' = Append(done, [op |-> "validate", ok |-> FALSE])
                 /\ Return(3)
            ELSE /\ done' = Append(done, [op |-> "validate", ok |-> TRUE])
                 /\ pc' = "CheckScript"
                 /\ UNCHANGED <<exitcode, log, attempts, errno>>
       ELSE IF arg # NULL /\ ~is_safe_path(arg)
            THEN /\ \E o \in LogOutcomes :
                      /\ logmsg(MsgInvalidPath(Deref(arg)), o)
                      /\ errno' = ErrnoAfterLog(errno, o)
                 /\ done' = Append(done, [op |-> "validate", ok |-> FALSE])
                 /\ Return(3)
            ELSE /\ done' = Append(done, [op |-> "validate", ok |-> TRUE])
                 /\ pc' = "CheckScript"
                 /\ UNCHANGED <<exitcode, log, attempts, errno>>
    /\ UNCHANGED <<inputs, aux, seen, script, envp, execs>>

\* lines 100-104: access(script, X_OK)
CheckExecutable ==
    /\ pc = "CheckScript"
    /\ IF ~access_ok(Deref(script))
       THEN /\ \E o \in LogOutcomes :
                 /\ logmsg(MsgNotExecutable(Deref(script), access_errno(Deref(script))), o)
                 /\ errno' = ErrnoAfterLog(access_errno(Deref(script)), o)
            /\ done' = Append(done, [op |-> "access", ok |-> FALSE])
            /\ Return(4)
       ELSE /\ done' = Append(done, [op |-> "access", ok |-> TRUE])
            /\ pc' = "CheckOwner"
            /\ UNCHANGED <<exitcode, log, attempts, errno>>
    /\ seen' = Append(seen, fs[Deref(script)])
    /\ UNCHANGED <<inputs, aux, script, envp, execs>>

\* faulty variant of CheckOwner: the result of the ownership test is ignored
CheckOwner_ignored ==
    /\ pc = "CheckOwner"
    /\ done' = Append(done, [op |-> "owner", ok |-> TRUE])
    /\ pc' = "BuildEnvironment"
    /\ seen' = Append(seen, fs[Deref(script)])
    /\ UNCHANGED <<inputs, aux, script, envp, execs, exitcode, log, attempts, errno>>

\* lines 105-109: file_owned_by_allowed(script)
CheckOwner ==
    /\ pc = "CheckOwner"
    /\ IF ~file_owned_by_allowed(Deref(script))
       THEN /\ \E o \in LogOutcomes :
                 /\ logmsg(MsgNotOwned(Deref(script)), o)
                 /\ errno' = ErrnoAfterLog(stat_errno(Deref(script), errno), o)
            /\ done' = Append(done, [op |-> "owner", ok |-> FALSE])
            /\ Return(5)
       ELSE /\ done' = Append(done, [op |-> "owner", ok |-> TRUE])
            /\ pc' = "BuildEnvironment"
            /\ UNCHANGED <<exitcode, log, attempts, errno>>
    /\ seen' = Append(seen, fs[Deref(script)])
    /\ UNCHANGED <<inputs, aux, script, envp, execs>>

\* char *const envp_default[] = { "PATH=/usr/bin:/bin", "LANG=C", NULL };
envp_default == <<Ptr(StrPath), Ptr(StrLang), NULL>>

\* snprintf(e, len, "<key>=%s", arg) with len = strlen(key) + strlen(arg) + 1:
\* at most len - 1 bytes are stored
EnvEntry(key, a) == SubSeq(key \o a, 1, (strlen(key) + strlen(a) + 1) - 1)

\* the outcomes of the four allocations: e, the array, the two strdup calls
AllocOutcomes == [e : BOOLEAN, arr : BOOLEAN, path : BOOLEAN, lang : BOOLEAN]

\* the array filled by lines 121-124 (135-138)
EnvArray(e, m) ==
    << Ptr(e),
       IF m.path THEN Ptr(StrPath) ELSE NULL,
       IF m.lang THEN Ptr(StrLang) ELSE NULL,
       NULL >>

\* the part of an allocation outcome that the code depends on
AllocChoice(m, nullStore) ==
    IF ~m.e THEN <<"e">>
    ELSE IF ~m.arr THEN <<"arr", nullStore>>
    ELSE <<"ok", m.path, m.lang>>

\* lines 116-124 (130-138): the environment with the command's entry.
\* The result of malloc for the array is not tested: when it is NULL the
\* stores through it are undefined; nullStore says whether they fault
\* (SIGSEGV) or go through, leaving envp the null pointer.
BuildWithArg(key, m, nullStore) ==
    IF ~m.e
    THEN /\ Return(10)
         /\ errno' = ENOMEM
         /\ done' = Append(done, [op |-> "env", ok |-> FALSE, alloc |-> AllocChoice(m, nullStore)])
         /\ UNCHANGED envp
    ELSE IF ~m.arr
    THEN /\ pc' = IF nullStore = "fault" THEN "Killed" ELSE "LogAndTransfer"
         /\ envp' = NULL
         /\ errno' = ENOMEM
         /\ done' = Append(done, [op |-> "env", ok |-> FALSE, alloc |-> AllocChoice(m, nullStore)])
         /\ UNCHANGED exitcode
    ELSE /\ pc' = "LogAndTransfer"
         /\ envp' = Ptr(EnvArray(EnvEntry(key, Deref(arg)), m))
         /\ errno' = IF m.path /\ m.lang THEN errno ELSE ENOMEM
         /\ done' = Append(done, [op |-> "env", ok |-> m.path /\ m.lang, alloc |-> AllocChoice(m, nullStore)])
         /\ UNCHANGED exitcode

\* lines 112-142
BuildEnvironment ==
    /\ pc = "BuildEnvironment"
    /\ IF strcmp0(cmd, StrAutodeploy)
       THEN IF arg # NULL
            THEN \E m \in AllocOutcomes, n \in {"fault", "stored"} :
                     BuildWithArg(StrDownloadUrl, m, n)
            ELSE /\ envp' = Ptr(envp_default)
                 /\ pc' = "LogAndTransfer"
                 /\ done' = Append(done, [op |-> "env", ok |-> TRUE, alloc |-> <<>>])
                 /\ UNCHANGED <<exitcode, errno>>
       ELSE IF arg # NULL
            THEN \E m \in AllocOutcomes, n \in {"fault", "stored"} :
                     BuildWithArg(StrEtPidFile, m, n)
            ELSE /\ envp' = Ptr(envp_default)
                 /\ pc' = "LogAndTransfer"
                 /\ done' = Append(done, [op |-> "env", ok |-> TRUE, alloc |-> <<>>])
                 /\ UNCHANGED <<exitcode, errno>>
    /\ UNCHANGED <<inputs, aux, seen, script, log, attempts, execs>>

\* faulty variant of exec_args: the caller's argument is passed on
exec_args_with_arg == <<script, arg, NULL>>

\* char *const exec_args[] = { (char*)script, NULL };
exec_args == <<script, NULL>>

RECURSIVE UpToNull(_)
\* the strings of a NULL-terminated array of pointers
UpToNull(a) ==
    IF a = <<>> \/ Head(a) = NULL THEN <<>>
    ELSE <<Deref(Head(a))>> \o UpToNull(Tail(a))

\* the environment execve reads from envp; a null envp is an empty list
EnvOf(e) == IF e = NULL THEN <<>> ELSE UpToNull(Deref(e))

\* faulty variant of LogExecuting: main gives up when the log cannot be opened
LogExecuting_failclosed ==
    /\ pc = "LogAndTransfer"
    /\ \E o \in LogOutcomes :
          /\ logmsg(MsgExecuting(Deref(script)), o)
          /\ errno' = ErrnoAfterLog(errno, o)
          /\ IF o.opened
             THEN pc' = "Transfer" /\ UNCHANGED exitcode
             ELSE Return(6)
    /\ UNCHANGED <<inputs, aux, seen, script, envp, done, execs>>

\* line 146: logmsg("executing %s", script)
LogExecuting ==
    /\ pc = "LogAndTransfer"
    /\ \E o \in LogOutcomes :
          /\ logmsg(MsgExecuting(Deref(script)), o)
          /\ errno' = ErrnoAfterLog(errno, o)
    /\ pc' = "Transfer"
    /\ UNCHANGED <<inputs, aux, seen, script, envp, exitcode, done, execs>>

\* what one execve call hands to the kernel, and the errno it leaves (0: none)
\* st is the state of the file at that moment
ExecCall(e) ==
    [path |-> Deref(script), args |-> UpToNull(exec_args), env |-> EnvOf(envp), err |-> e,
     st |-> fs[Deref(script)]]

\* line 147: execve(script, exec_args, envp) replaces the process image
TransferOk ==
    /\ pc = "Transfer"
    /\ fs[Deref(script)].exists
    /\ execs' = Append(execs, ExecCall(0))
    /\ done' = Append(done, [op |-> "execve", ok |-> TRUE])
    /\ pc' = "Replaced"
    /\ UNCHANGED <<inputs, aux, seen, script, envp, errno, exitcode, log, attempts>>

\* line 147: execve returns -1 and sets errno
TransferFails ==
    /\ pc = "Transfer"
    /\ \E e \in (IF fs[Deref(script)].exists THEN ExecErrnos ELSE {ENOENT}) :
          /\ execs' = Append(execs, ExecCall(e))
          /\ errno' = e
    /\ done' = Append(done, [op |-> "execve", ok |-> FALSE])
    /\ pc' = "TransferFailed"
    /\ UNCHANGED <<inputs, aux, seen, script, envp, exitcode, log, attempts>>

\* faulty variant of ExecveFailed: the return value of execve is logged
\* in place of errno
ExecveFailed_logs_rc ==
    /\ pc = "TransferFailed"
    /\ \E o \in LogOutcomes :
          /\ logmsg(MsgExecveFailed(-1), o)
          /\ errno' = ErrnoAfterLog(errno, o)
    /\ Return(6)
    /\ UNCHANGED <<inputs, aux, seen, script, envp, done, execs>>

\* lines 148-150: the value of errno is read before logmsg is entered
ExecveFailed ==
    /\ pc = "TransferFailed"
    /\ \E o \in LogOutcomes :
          /\ logmsg(MsgExecveFailed(errno), o)
          /\ errno' = ErrnoAfterLog(errno, o)
    /\ Return(6)
    /\ UNCHANGED <<inputs, aux, seen, script, envp, done, execs>>

Next ==
    \/ Start
    \/ ParseCommand
    \/ ValidateArgument
    \/ CheckExecutable
    \/ CheckOwner
    \/ BuildEnvironment
    \/ LogExecuting
    \/ TransferOk
    \/ TransferFails
    \/ ExecveFailed

Spec == Init /\ [][Next]_vars

TypeOK ==
    /\ pc \in {"Start", "ParseCommand", "ValidateArgument", "CheckScript", "CheckOwner",
               "BuildEnvironment", "LogAndTransfer", "Transfer", "TransferFailed",
               "Exited", "Replaced", "Killed"}
    /\ Len(execs) <= 1

\* ------------------------------------------------- vocabulary of the claims
ToSet(q) == {q[i] : i \in 1..Len(q)}

HasPrefix(s, p) == Len(s) >= Len(p) /\ SubSeq(s, 1, Len(p)) = p

EndsWith(s, t) == Len(s) >= Len(t) /\ SubSeq(s, Len(s) - Len(t) + 1, Len(s)) = t

\* the grammars as the specification words them
UrlGrammar(a) == Len(a) <= 2048 /\ (HasPrefix(a, StrHttp) \/ HasPrefix(a, StrHttps))

PathGrammar(a) ==
    Len(a) <= 4096 /\ (HasPrefix(a, StrVarRun) \/ HasPrefix(a, StrVarTmp) \/ HasPrefix(a, StrTmp))

HasCmd == argc >= 2
IsAutodeploy == HasCmd /\ cmd = StrAutodeploy
IsMemwatch == HasCmd /\ cmd = StrMemwatch
KnownCmd == IsAutodeploy \/ IsMemwatch
HasArg == argc >= 3
TheArg == argv[3]

\* the argument is absent or conforms to the grammar of the command
ArgConforms ==
    \/ ~HasArg
    \/ IsAutodeploy /\ UrlGrammar(TheArg)
    \/ IsMemwatch /\ PathGrammar(TheArg)

\* the script statically mapped to the command
TargetScript == IF IsAutodeploy THEN AUTODEPLOY ELSE MEMWATCH

\* the key of the command-specific environment entry
TargetKey == IF IsAutodeploy THEN StrDownloadUrl ELSE StrEtPidFile

\* the caller may execute the target script
ScriptExecutable == fs[TargetScript].exists /\ fs[TargetScript].xok

Transferred == execs # <<>>
Exits(code) == pc = "Exited" /\ exitcode = Ptr(code)

\* main has not ended
Running == pc \notin {"Exited", "Replaced", "Killed"}

\* an invocation that has not ended can take its next step, so the exits
\* the claims below name are reached and not only permitted
CanStep == Running => ENABLED Next

\* the operations of the given kinds performed so far
Did(ops) == \E i \in 1..Len(done) : done[i].op \in ops

\* the last logmsg call was for message m, and its line is the end of the
\* log when the log could be opened
LastLogged(m) ==
    /\ attempts # <<>>
    /\ attempts[Len(attempts)].msg = m
    /\ attempts[Len(attempts)].opened => \E t \in 0..MaxClock : EndsWith(log, LogLine(t, m))

\* C1: execve is attempted only after, in this order, the command was
\* recognised, the argument passed the command's grammar, the executability
\* check passed and the ownership check passed; a failure of any of these
\* steps is the last step of the invocation, which exits without an execve.
C1_ChecksPrecedeTransfer ==
    /\ Transferred =>
          /\ Len(done) >= 6
          /\ done[1] = [op |-> "parse", ok |-> TRUE]
          /\ done[2] = [op |-> "validate", ok |-> TRUE]
          /\ done[3] = [op |-> "access", ok |-> TRUE]
          /\ done[4] = [op |-> "owner", ok |-> TRUE]
          /\ done[5].op = "env"
          /\ done[6].op = "execve"
          /\ KnownCmd
          /\ ArgConforms
          /\ ScriptExecutable
    /\ \A i \in 1..Len(done) :
          (done[i].op \in {"parse", "validate", "access", "owner"} /\ ~done[i].ok) =>
              /\ i = Len(done)
              /\ pc = "Exited"
              /\ ~Transferred

C1_Witness == pc = "Replaced" /\ HasArg /\ IsMemwatch

\* C2: the environment handed to execve is exactly PATH=/usr/bin:/bin and
\* LANG=C, plus <key>=<arg> iff an argument was given; between 2 and 3
\* entries; no inherited variable; for every outcome of the allocations.
C2_EnvironmentExact ==
    \A i \in 1..Len(execs) :
        LET env == execs[i].env
            want == {StrPath, StrLang} \cup (IF HasArg THEN {TargetKey \o TheArg} ELSE {})
        IN  /\ ToSet(env) = want
            /\ Len(env) = Cardinality(want)
            /\ Len(env) >= 2 /\ Len(env) <= 3
            /\ ToSet(env) \cap ToSet(environ) = {}

\* C3: the executed path is the fixed path mapped to the command, the
\* argument vector is that path alone, and the caller's argument appears in
\* neither; it appears only as the value of the command's environment entry.
C3_FixedPathAndArgv ==
    \A i \in 1..Len(execs) :
        /\ KnownCmd
        /\ execs[i].path = TargetScript
        /\ execs[i].path \in {AUTODEPLOY, MEMWATCH}
        /\ execs[i].args = <<TargetScript>>
        /\ HasArg =>
              /\ TheArg # execs[i].path
              /\ TheArg \notin ToSet(execs[i].args)
              /\ \A j \in 1..Len(execs[i].env) :
                    execs[i].env[j] \in {StrPath, StrLang, TargetKey \o TheArg}

C3_Witness ==
    /\ Transferred
    /\ HasArg
    /\ IsAutodeploy
    /\ StrDownloadUrl \o TheArg \in ToSet(execs[1].env)

\* C4: with no command, or a command other than exactly "autodeploy" or
\* "memwatch", the program exits with code 2 and performs no script check,
\* no environment construction and no execve.
C4_UnknownCommandExits2 ==
    ~KnownCmd =>
        /\ CanStep
        /\ pc \in {"Start", "ParseCommand", "Exited"}
        /\ pc = "Exited" => exitcode = Ptr(2)
        /\ ~Did({"validate", "access", "owner", "env", "execve"})
        /\ script = NULL
        /\ envp = NULL
        /\ ~Transferred

C4_Witness ==
    /\ Exits(2)
    /\ HasCmd
    /\ HasPrefix(cmd, StrMemwatch)
    /\ LastLogged(MsgUnknown(cmd))

\* C5: autodeploy with a present argument longer than 2048 bytes or without
\* the exact prefix http:// or https:// exits with code 3 after the logmsg
\* call for the rejection, before any executability or ownership check,
\* environment construction or execve.
C5_BadUrlExits3 ==
    (IsAutodeploy /\ HasArg /\ ~UrlGrammar(TheArg)) =>
        /\ CanStep
        /\ pc \in {"Start", "ParseCommand", "ValidateArgument", "Exited"}
        /\ pc = "Exited" =>
              /\ exitcode = Ptr(3)
              /\ LastLogged(MsgInvalidUrl(TheArg))
        /\ ~Did({"access", "owner", "env", "execve"})
        /\ envp = NULL
        /\ ~Transferred

C5_Witness ==
    /\ IsAutodeploy
    /\ HasArg
    /\ Len(TheArg) > 2048
    /\ HasPrefix(TheArg, StrHttp)
    /\ Exits(3)
    /\ attempts[Len(attempts)].opened
    /\ LastLogged(MsgInvalidUrl(TheArg))

\* C6: memwatch with a present argument longer than 4096 bytes or without
\* one of the prefixes /var/run/, /var/tmp/, /tmp/ exits with code 3 after
\* the logmsg call for the rejection, before any executability or ownership
\* check, environment construction or execve.
C6_BadPathExits3 ==
    (IsMemwatch /\ HasArg /\ ~PathGrammar(TheArg)) =>
        /\ CanStep
        /\ pc \in {"Start", "ParseCommand", "ValidateArgument", "Exited"}
        /\ pc = "Exited" =>
              /\ exitcode = Ptr(3)
              /\ LastLogged(MsgInvalidPath(TheArg))
        /\ ~Did({"access", "owner", "env", "execve"})
        /\ envp = NULL
        /\ ~Transferred

C6_Witness ==
    /\ IsMemwatch
    /\ HasArg
    /\ Len(TheArg) > 4096
    /\ HasPrefix(TheArg, StrTmp)
    /\ Exits(3)
    /\ attempts[Len(attempts)].opened
    /\ LastLogged(MsgInvalidPath(TheArg))

\* C7 as stated: for a known command whose script the caller cannot
\* execute, the program exits with code 4 whether or not the argument
\* conforms to the grammar.
C7_NotExecutableExits4Always ==
    (KnownCmd /\ ~ScriptExecutable /\ pc = "Exited") => exitcode = Ptr(4)

\* C7 amended: for a known command whose script the caller cannot execute,
\* the program exits with code 4 when the argument is absent or conforms to
\* the grammar, and with code 3, before the executability check, when the
\* argument violates the grammar.
C7_NotExecutableExits4IfArgOk ==
    (KnownCmd /\ ~ScriptExecutable) =>
        /\ CanStep
        /\ pc \in {"Start", "ParseCommand", "ValidateArgument", "CheckScript", "Exited"}
        /\ pc = "Exited" =>
              IF ArgConforms
              THEN /\ exitcode = Ptr(4)
                   /\ LastLogged(MsgNotExecutable(TargetScript, access_errno(TargetScript)))
              ELSE /\ exitcode = Ptr(3)
                   /\ ~Did({"access"})
        /\ ~Did({"owner", "env", "execve"})
        /\ ~Transferred

C7_Witness ==
    /\ KnownCmd
    /\ HasArg
    /\ ArgConforms
    /\ fs[TargetScript].exists
    /\ ~fs[TargetScript].xok
    /\ Exits(4)

\* the owner of the target script is uid 0 or the uid of the account "panel"
OwnerAllowed ==
    \/ fs[TargetScript].st_uid = 0
    \/ passwd # NULL /\ fs[TargetScript].st_uid = Deref(passwd).pw_uid

\* C8: for a known command whose argument passed validation and whose
\* script passed the executability check, an owner that is neither uid 0 nor
\* the uid of the account "panel" makes the program exit with code 5 after
\* the logmsg call for the rejection; no environment is built and no execve
\* is attempted.
C8_BadOwnerExits5 ==
    (KnownCmd /\ ArgConforms /\ ScriptExecutable /\ ~OwnerAllowed) =>
        /\ pc \in {"Start", "ParseCommand", "ValidateArgument", "CheckScript", "CheckOwner", "Exited"}
        /\ pc = "Exited" =>
              /\ exitcode = Ptr(5)
              /\ LastLogged(MsgNotOwned(TargetScript))
        /\ ~Did({"env", "execve"})
        /\ envp = NULL
        /\ ~Transferred

\* C9: when execve fails, the failure is passed to logmsg together with the
\* errno execve left, the process exits with code 6, and execve is called
\* exactly once in the invocation.
C9_ExecveFailureExits6 ==
    (\E i \in 1..Len(done) : done[i].op = "execve" /\ ~done[i].ok) =>
        /\ CanStep
        /\ Len(execs) = 1
        /\ execs[1].err \in ExecErrnos
        /\ Cardinality({i \in 1..Len(done) : done[i].op = "execve"}) = 1
        /\ pc \in {"TransferFailed", "Exited"}
        /\ pc = "TransferFailed" => errno = execs[1].err
        /\ pc = "Exited" =>
              /\ exitcode = Ptr(6)
              /\ LastLogged(MsgExecveFailed(execs[1].err))

C9_Witness ==
    /\ Exits(6)
    /\ Len(execs) = 1
    /\ execs[1].err = ENOEXEC
    /\ Len(attempts) >= 2
    /\ ~attempts[Len(attempts) - 1].opened
    /\ attempts[Len(attempts)].opened
    /\ LastLogged(MsgExecveFailed(ENOEXEC))

\* C10: if an allocation made while building the environment fails, the
\* program exits with code 10 and execve is not attempted.
C10_AllocFailureExits10 ==
    (\E i \in 1..Len(done) : done[i].op = "env" /\ ~done[i].ok) =>
        /\ pc = "Exited"
        /\ exitcode = Ptr(10)
        /\ ~Transferred

\* the last logmsg call
LastAttempt == attempts[Len(attempts)]

\* C11: every invocation, also one without a command, makes a logmsg call
\* carrying the real uid, the effective uid and the command before any
\* validation decision (the call is counted even when the log cannot be
\* opened and its line is lost).
C11_AuditRecordFirst ==
    pc # "Start" =>
        /\ attempts # <<>>
        /\ HasCmd => attempts[1].msg = MsgInvoked

\* the messages of main that name the failure behind an exit code; main has
\* no logmsg call for a usage error without command or an allocation failure
FailureMsgs(code) ==
    IF code = 2 THEN (IF HasCmd THEN {MsgUnknown(cmd)} ELSE {})
    ELSE IF code = 3 THEN (IF HasArg THEN {MsgInvalidUrl(TheArg), MsgInvalidPath(TheArg)} ELSE {})
    ELSE IF code = 4 THEN {MsgNotExecutable(TargetScript, e) : e \in {ENOENT, EACCES}}
    ELSE IF code = 5 THEN {MsgNotOwned(TargetScript)}
    ELSE IF code = 6 THEN {MsgExecveFailed(e) : e \in ExecErrnos}
    ELSE {}

\* C12: every failure exit (2, 3, 4, 5, 6, 10) is preceded by a logmsg call
\* naming that failure, and every execve is immediately preceded by the
\* logmsg call naming the script.
C12_OutcomeLogged ==
    /\ pc = "Exited" =>
          /\ attempts # <<>>
          /\ LastAttempt.msg \in FailureMsgs(Deref(exitcode))
    /\ pc \in {"Transfer", "TransferFailed", "Replaced"} =>
          /\ attempts # <<>>
          /\ LastAttempt.msg = MsgExecuting(TargetScript)

\* the stages of main in their order
StageOrder ==
    <<"Start", "ParseCommand", "ValidateArgument", "CheckScript", "CheckOwner",
      "BuildEnvironment", "LogAndTransfer", "Transfer", "TransferFailed">>

\* C14: an invocation passes through its stages at most once, in order, and
\* ends either replaced by the script or exited with a code in
\* {2, 3, 4, 5, 6, 10}; it never ends in any other way.
C14_OneTerminalOutcome ==
    /\ CanStep
    /\ Running => \E i \in 1..Len(StageOrder) : pc = StageOrder[i]
    /\ ~Running =>
          \/ pc = "Replaced" /\ exitcode = NULL
          \/ pc = "Exited" /\ exitcode \in {Ptr(c) : c \in {2, 3, 4, 5, 6, 10}}

\* C18: every record written adds exactly one line to the log, whatever the
\* command and argument strings contain.
C18_OneLinePerRecord ==
    Cardinality({i \in 1..Len(log) : log[i] = NL})
        = Cardinality({i \in 1..Len(attempts) : attempts[i].opened})

\* C19: when there is no account "panel", the ownership check accepts the
\* script iff its owner is uid 0, for every owner uid including (uid_t)-1.
C19_NoPanelOnlyRoot ==
    (passwd = NULL /\ KnownCmd) =>
        \A i \in 1..Len(done) :
            done[i].op = "owner" => (done[i].ok <=> fs[TargetScript].st_uid = 0)

\* no allocation made while building the environment has failed
AllocsOk == \A i \in 1..Len(done) : done[i].op = "env" => done[i].ok

\* C20: for a known command, an absent argument and every argument that
\* conforms to the grammar (lengths 2048 and 4096 and paths with '..'
\* included) is never rejected with code 3; with an executable script owned
\* by an allowed identity and successful allocations the invocation reaches
\* the execve call.
C20_ConformingArgAccepted ==
    (KnownCmd /\ ArgConforms) =>
        /\ ~Exits(3)
        /\ ~Did({"validate"}) \/ done[2] = [op |-> "validate", ok |-> TRUE]
        /\ (ScriptExecutable /\ OwnerAllowed /\ AllocsOk) =>
              /\ CanStep
              /\ ~Running => Transferred

C20_Witness ==
    /\ IsMemwatch
    /\ HasArg
    /\ Len(TheArg) = PathMax
    /\ pc = "Replaced"
    /\ execs[1].env = <<StrEtPidFile \o TheArg, StrPath, StrLang>>

C20_WitnessDotDot ==
    /\ IsMemwatch
    /\ HasArg
    /\ TheArg = <<"/", "t", "m", "p", "/", ".", ".", "/", "e", "t", "c", "/", "p", "a", "s", "s", "w", "d">>
    /\ Transferred

\* ------------------------------------------- a concurrent process (C16)
\* the states another process may put a script into: removed, made
\* non-executable, replaced by its own executable, restored
TamperStates ==
    {[exists |-> FALSE, xok |-> FALSE, st_uid |-> 0],
     [exists |-> TRUE, xok |-> FALSE, st_uid |-> 0],
     [exists |-> TRUE, xok |-> TRUE, st_uid |-> 1000],
     [exists |-> TRUE, xok |-> TRUE, st_uid |-> 0]}

\* between any two steps of main another process changes a script
Tamper ==
    /\ Running
    /\ \E p \in Scripts, st \in TamperStates :
          /\ st # fs[p]
          /\ fs' = [fs EXCEPT ![p] = st]
    /\ UNCHANGED <<argv, environ, uid, euid, gid, passwd, pc, script, envp, errno,
                   exitcode, log, attempts, done, execs, seen, aux>>

ArgvsRace ==
    { <<ProgName, StrMemwatch, StrTmp \o <<"p">>>>,
      <<ProgName, StrAutodeploy>> }

InitRace ==
    /\ Init
    /\ argv \in ArgvsRace
    /\ uid = 1000
    /\ \A p \in Scripts : fs[p] \in TamperStates

NextRace == Next \/ Tamper

SpecRace == InitRace /\ [][NextRace]_vars

\* the owner uid the code accepts besides 0
AcceptedUid == IF passwd # NULL THEN Deref(passwd).pw_uid ELSE UidNone

\* C16 as stated: in every interleaving with a process that changes the
\* script between the checks and the transfer, a script that is executed is
\* owned by root or the service account at the time of the execve.
C16_OwnerHoldsAtTransfer ==
    \A i \in 1..Len(execs) :
        execs[i].err = 0 =>
            \/ execs[i].st.st_uid = 0
            \/ passwd # NULL /\ execs[i].st.st_uid = Deref(passwd).pw_uid

\* C16 amended: the two checks are made once, before the environment is
\* built: execve is attempted only if the script was executable when access
\* looked and was owned by uid 0 or panel_uid when stat looked; they hold at
\* the time of the execve when the script has not changed since, and
\* nothing is checked again at that time.
C16_ChecksHeldWhenMade ==
    Transferred =>
        /\ Len(seen) = 2
        /\ seen[1].exists /\ seen[1].xok
        /\ seen[2].exists
        /\ seen[2].st_uid = 0 \/ seen[2].st_uid = AcceptedUid
        /\ \A i \in 1..Len(execs) :
              (execs[i].st = seen[1] /\ execs[i].st = seen[2]) =>
                  /\ execs[i].st.xok
                  /\ execs[i].st.st_uid = 0 \/ execs[i].st.st_uid = AcceptedUid

C16_Witness ==
    /\ pc = "Replaced"
    /\ seen[2].st_uid = 0
    /\ execs[1].st.st_uid = 1000
    /\ execs[1].st.xok

\* ------------------------------- the same invocation run twice (C13, C15)
\* the invocation has ended; the same command line is run again by the same
\* caller: a new process, the log file as the first run left it
Rerun ==
    /\ ~Running
    /\ first = NULL
    /\ first' = Ptr([pc |-> pc, exitcode |-> exitcode, execs |-> execs, done |-> done,
                     attempts |-> attempts, log |-> log])
    /\ pc' = "Start"
    /\ script' = NULL
    /\ envp' = NULL
    /\ errno' = 0
    /\ exitcode' = NULL
    /\ attempts' = <<>>
    /\ done' = <<>>
    /\ execs' = <<>>
    /\ seen' = <<>>
    /\ UNCHANGED <<inputs, log, writers, written>>

ArgvsTwice ==
    { <<ProgName>>,
      <<ProgName, <<"m", "e", "m", "w", "a", "t", "c">>>>,
      <<ProgName, StrAutodeploy>>,
      <<ProgName, StrAutodeploy, <<"f", "t", "p", ":", "/", "/", "x">>>>,
      <<ProgName, StrAutodeploy, StrHttp \o <<"x">>>>,
      <<ProgName, StrMemwatch, StrTmp \o <<"p">>>> }

InitTwice ==
    /\ Init
    /\ argv \in ArgvsTwice
    /\ uid = 1000
    /\ passwd # NULL
    /\ fs[MEMWATCH] = [exists |-> FALSE, xok |-> FALSE, st_uid |-> 0]
    /\ fs[AUTODEPLOY] \in {[exists |-> TRUE, xok |-> TRUE, st_uid |-> 0],
                          [exists |-> TRUE, xok |-> FALSE, st_uid |-> 0],
                          [exists |-> TRUE, xok |-> TRUE, st_uid |-> 1000]}

NextTwice == Next \/ Rerun

SpecTwice == InitTwice /\ [][NextTwice]_vars

IsPrefix(a, b) == Len(a) <= Len(b) /\ SubSeq(b, 1, Len(a)) = a

\* the terminal outcome: how main ended, the exit code, the execve calls
Outcome(p, x, e) ==
    [pc |-> p, exitcode |-> x,
     calls |-> [i \in 1..Len(e) |-> [path |-> e[i].path, args |-> e[i].args, env |-> e[i].env]]]

\* what the system answered to a run, the log apart: the outcome of the
\* allocations and the result of execve, in the order main asked
Answers(d, e) ==
    [i \in 1..Cardinality({j \in 1..Len(d) : d[j].op = "env"}) |->
        d[CHOOSE j \in 1..Len(d) : d[j].op = "env"].alloc]
    \o [i \in 1..Len(e) |-> <<e[i].err>>]

\* two runs got the same answers as far as both asked
SameAnswers(d1, e1, d2, e2) ==
    \/ IsPrefix(Answers(d1, e1), Answers(d2, e2))
    \/ IsPrefix(Answers(d2, e2), Answers(d1, e1))

Messages(a) == [i \in 1..Len(a) |-> a[i].msg]
Opened(a) == [i \in 1..Len(a) |-> a[i].opened]

\* both runs have ended and got the same answers from the system
TwoRunsEnded ==
    /\ first # NULL
    /\ ~Running
    /\ SameAnswers(Deref(first).done, Deref(first).execs, done, execs)

SameOutcome ==
    Outcome(Deref(first).pc, Deref(first).exitcode, Deref(first).execs)
        = Outcome(pc, exitcode, execs)

\* C13: logging is fail-open: a run in which every open of the log
\* succeeds and a run of the same invocation in which any of them fail end
\* with the same outcome (same exit code, or the same execve call).
C13_FailOpen ==
    (TwoRunsEnded /\ \A i \in 1..Len(Deref(first).attempts) : Deref(first).attempts[i].opened) =>
        SameOutcome

C13_Witness ==
    /\ TwoRunsEnded
    /\ \A i \in 1..Len(Deref(first).attempts) : Deref(first).attempts[i].opened
    /\ \A i \in 1..Len(attempts) : ~attempts[i].opened
    /\ pc = "Replaced"
    /\ Len(execs[1].env) = 3

\* C15, the state part: the second of two runs of one invocation ends as
\* the first did and makes the same logmsg calls; what the first run
\* appended is still in the log, and with the log equally available the
\* second run appends as much.
C15_SameAgain ==
    TwoRunsEnded =>
        /\ SameOutcome
        /\ Messages(attempts) = Messages(Deref(first).attempts)
        /\ IsPrefix(Deref(first).log, log)
        /\ Opened(attempts) = Opened(Deref(first).attempts) =>
              Len(log) = 2 * Len(Deref(first).log)

\* C15: running the same invocation twice against an unchanged file system
\* and account database gives the same outcome and the same log messages
\* both times; an invocation changes nothing but the log, and only appends
\* to it; the content of the log does not influence the outcome.
C15_Repeatable ==
    /\ []C15_SameAgain
    /\ [][inputs' = inputs /\ IsPrefix(log, log')]_vars

C15_Witness ==
    /\ TwoRunsEnded
    /\ pc = "Replaced"
    /\ Deref(first).pc = "Replaced"
    /\ Deref(first).log # <<>>
    /\ Len(log) = 2 * Len(Deref(first).log)

\* ------------------------------------- concurrent logmsg calls (C17)
\* size of the buffer of a stdio stream
BufSize == 4096
\* number of processes inside logmsg at the same time
MaxWriters == 2

\* faulty variant of Chunks: the stream is unbuffered, each of the three
\* fprintf calls of logmsg is a write of its own
Chunks_unbuffered(rec, n) ==
    << SubSeq(rec, 1, Len(Strftime(0)) + 2),
       SubSeq(rec, Len(Strftime(0)) + 3, Len(rec) - 1),
       <<NL>> >>

RECURSIVE Chunks(_, _)
\* the writes by which a buffered stream opened with "a" delivers a record:
\* a full buffer each time the buffer fills, the rest at fclose
Chunks(rec, n) ==
    IF Len(rec) <= n THEN <<rec>>
    ELSE <<SubSeq(rec, 1, n)>> \o Chunks(SubSeq(rec, n + 1, Len(rec)), n)

\* the messages the processes log: the record of an invocation, which
\* carries the argument, and the rejection of a command, which does not
LogMsgs == {MsgInvoked, MsgUnknown(cmd)}

\* lines 17-28: a process enters logmsg: fopen succeeds, the record is
\* formatted into the stream
BeginLog ==
    /\ Len(writers) < MaxWriters
    /\ \E m \in LogMsgs, t \in 0..MaxClock :
          writers' = Append(writers, [rec |-> LogLine(t, m),
                                      todo |-> Chunks(LogLine(t, m), BufSize),
                                      at |-> 0])
    /\ UNCHANGED <<inputs, pc, script, envp, errno, exitcode, log, attempts, done, execs,
                   seen, first, written>>

\* lines 24-30: the stream of process i writes its next chunk; the file is
\* open in append mode, so the chunk goes to the end of the file
WriteChunk ==
    \E i \in 1..Len(writers) :
        /\ writers[i].todo # <<>>
        /\ log' = log \o Head(writers[i].todo)
        /\ written' = Append(written, [w |-> i, at |-> writers[i].at,
                                       n |-> Len(Head(writers[i].todo))])
        /\ writers' = [writers EXCEPT ![i].todo = Tail(@),
                                      ![i].at = @ + Len(Head(writers[i].todo))]
        /\ UNCHANGED <<inputs, pc, script, envp, errno, exitcode, attempts, done, execs,
                       seen, first>>

ArgvsLog ==
    { <<ProgName, StrMemwatch, StrTmp \o <<"p">>>>,
      <<ProgName, StrMemwatch, Pad(StrTmp, PathMax)>>,
      <<ProgName, StrMemwatch, Pad(StrTmp, PathMax + 1)>> }

InitLog ==
    /\ Init
    /\ argv \in ArgvsLog
    /\ uid = 1000
    /\ passwd # NULL
    /\ \A p \in Scripts : fs[p] = [exists |-> TRUE, xok |-> TRUE, st_uid |-> 0]

NextLog == BeginLog \/ WriteChunk

SpecLog == InitLog /\ [][NextLog]_vars

RECURSIVE Offset(_)
\* the position in the log of the k-th write
Offset(k) == IF k <= 1 THEN 0 ELSE Offset(k - 1) + written[k - 1].n

\* the writes of process i
WritesOf(i) == {k \in 1..Len(written) : written[k].w = i}

\* process i has left logmsg
Logged(i) == i \in 1..Len(writers) /\ writers[i].todo = <<>>

\* the record of process i is in the log as one piece
OneLine(i) ==
    \E lo \in WritesOf(i) :
        /\ WritesOf(i) = lo..(lo + Cardinality(WritesOf(i)) - 1)
        /\ SubSeq(log, Offset(lo) + 1, Offset(lo) + Len(writers[i].rec)) = writers[i].rec

\* every byte written is in the log where its write put it
NothingLost ==
    /\ Len(log) = Offset(Len(written) + 1)
    /\ \A k \in 1..Len(written) :
          SubSeq(log, Offset(k) + 1, Offset(k) + written[k].n)
              = SubSeq(writers[written[k].w].rec, written[k].at + 1,
                       written[k].at + written[k].n)

\* C17 as stated: with concurrent invocations every record, of whatever
\* length, is in the log as one contiguous complete line.
C17_EveryRecordOneLine == \A i \in 1..Len(writers) : Logged(i) => OneLine(i)

\* C17 amended: no byte of a record is lost or overwritten, and a record
\* that fits the stream's buffer is in the log as one contiguous complete
\* line; a longer record is written in several appends, between which the
\* writes of another invocation can fall.
C17_ShortRecordOneLine ==
    /\ NothingLost
    /\ \A i \in 1..Len(writers) :
          (Logged(i) /\ Len(writers[i].rec) <= BufSize) => OneLine(i)

C17_Witness ==
    /\ Len(writers) = 2
    /\ Logged(1) /\ Logged(2)
    /\ Len(writers[1].rec) <= BufSize
    /\ Len(writers[2].rec) > BufSize
    /\ OneLine(1)
    /\ ~OneLine(2)

====
